---- MODULE Spec2Model ----
\* Breadcrumb construction of the angular-breadcrumb application: the
\* BreadcrumbService walks the router's activated route tree on NavigationEnd
\* and emits the list of label/URL pairs, which BreadcrumbComponent renders.
EXTENDS Integers, Sequences, FiniteSets, TLC

\* ------------------------------------------------------------- bounds
\* Largest number of nodes of a route tree.
MaxNodes == 3
\* Largest number of completed navigations in a run of the application.
MaxNavigations == 2

\* ----------------------------------------------------------------- state
VARIABLES
  routerState,   \* router.routerState.snapshot: the activated route tree
  nav,           \* the router's navigation in progress
  breadcrumbs,   \* the current value of _breadcrumbs$
  emissions,     \* the values _breadcrumbs$.next was called with, in order
  navEnds,       \* the snapshot at each NavigationEnd event, in order
  walk,          \* what the most recent construction did
  error,         \* the subscribe callback threw
  subscribed,    \* the component's async pipe has subscribed to breadcrumbs$
  subscribedAt,  \* how many lists had been emitted when it subscribed
  links,         \* the links the component displays
  pageUser       \* UserComponent.user, the object the user page displays

vars == <<routerState, nav, breadcrumbs, emissions, navEnds, walk, error,
          subscribed, subscribedAt, links, pageUser>>

\* ------------------------------------------------------- JavaScript values
\* Strings that are split or joined are sequences of characters; a label is
\* a JavaScript value tagged with its type.
Undefined == [kind |-> "undefined", value |-> "undefined"]
Str(s) == [kind |-> "string", value |-> s]
Fn(name) == [kind |-> "function", value |-> name]
TypeError == [kind |-> "throw", value |-> "TypeError"]
Null == 0

\* JavaScript truthiness of a value: undefined and '' are falsy.
Truthy(v) == /\ v.kind # "undefined"
             /\ ~(v.kind = "string" /\ v.value = "")

\* Array.prototype.join on an array of strings (characters sequences).
RECURSIVE join(_, _)
join(arr, sep) ==
  IF Len(arr) = 0 THEN <<>>
  ELSE IF Len(arr) = 1 THEN arr[1]
  ELSE arr[1] \o sep \o join(Tail(arr), sep)

\* Mutant of paths: only the first segment of a node is taken.
pathsFirstOnly(url) == IF Len(url) = 0 THEN <<>> ELSE <<url[1].path>>

\* Array.prototype.map(url => url.path) on an array of UrlSegment.
paths(url) == [i \in 1..Len(url) |-> url[i].path]

\* ------------------------------------------------------------ route trees
\* A tree is a sequence of nodes; node 1 is the root, every other node names
\* its parent, which precedes it, and the children of a node are ordered by
\* their index. A node is an ActivatedRouteSnapshot: url and data.
children(t, n) == {c \in 1..Len(t) : t[c].parent = n}

\* Mutant of firstChild: the walk descends into the last child.
lastChild(t, n) ==
  IF children(t, n) = {} THEN Null
  ELSE CHOOSE c \in children(t, n) : \A d \in children(t, n) : c >= d

\* ActivatedRouteSnapshot.firstChild: the first child, or null.
firstChild(t, n) ==
  IF children(t, n) = {} THEN Null
  ELSE CHOOSE c \in children(t, n) : \A d \in children(t, n) : c <= d

\* The users the placeholder API serves, by id.
Users == { [id |-> <<"1">>, name |-> "Leanne"], [id |-> <<"2">>, name |-> "Ervin"] }

\* The breadcrumb function of the users/:id route: data => `${data.user.name}`.
Apply(f, data) ==
  IF f.kind # "function" THEN TypeError
  ELSE IF data.user = Undefined THEN TypeError
  ELSE Str(data.user.name)

\* ------------------------------------------------------ BreadcrumbService
\* Mutant of getLabel: the breadcrumb value is emitted as it is.
getLabelRaw(data) == [label |-> data.breadcrumb, invoked |-> FALSE]

\* Mutant of getLabel: the function is applied to the route's configured
\* data, which holds no resolved entry.
getLabelConfig(data) ==
  IF data.breadcrumb.kind = "function"
  THEN [label |-> Apply(data.breadcrumb, [data EXCEPT !.user = Undefined]),
        invoked |-> TRUE]
  ELSE [label |-> data.breadcrumb, invoked |-> FALSE]

\* getLabel: the literal string, or the function applied to the data bag.
\* Returns the label and whether the breadcrumb value was invoked.
getLabel(data) ==
  IF data.breadcrumb.kind = "function"
  THEN [label |-> Apply(data.breadcrumb, data), invoked |-> TRUE]
  ELSE [label |-> data.breadcrumb, invoked |-> FALSE]

\* The result of a walk: the list built so far, with what the walk did
\* (origin[k] is the node breadcrumbs[k] was pushed for, visited the nodes in
\* the order they were entered, applied the data bags a breadcrumb value was
\* invoked on, thrown whether an exception ended the walk).
EmptyWalk ==
  [breadcrumbs |-> <<>>, origin |-> <<>>, visited |-> <<>>, applied |-> <<>>,
   thrown |-> FALSE]

RECURSIVE addBreadcrumb(_, _, _, _)

\* Mutant of addBreadcrumb: the child is given the parent's URL, not the
\* node's.
addBreadcrumbParentUrl(t, route, parentUrl, acc) ==
  IF route = Null \/ acc.thrown THEN acc
  ELSE
    LET routeUrl == parentUrl \o paths(t[route].url)
        got == getLabel(t[route].data)
        seen == [acc EXCEPT !.visited = Append(@, route)]
        pushed ==
          IF Truthy(t[route].data.breadcrumb)
          THEN IF got.label.kind = "throw"
               THEN [seen EXCEPT !.thrown = TRUE]
               ELSE [seen EXCEPT
                       !.breadcrumbs =
                          Append(@, [label |-> got.label,
                                     url |-> <<"/">> \o join(routeUrl, <<"/">>)]),
                       !.origin = Append(@, route),
                       !.applied = IF got.invoked
                                   THEN Append(@, [node |-> route, arg |-> t[route].data])
                                   ELSE @]
          ELSE seen
    IN addBreadcrumb(t, firstChild(t, route), parentUrl, pushed)

\* addBreadcrumb: on a node, its URL is the parent's with the node's own
\* segments; a truthy breadcrumb value pushes an entry; the walk goes on into
\* the first child with the node's URL. An exception of getLabel ends it.
addBreadcrumb(t, route, parentUrl, acc) ==
  IF route = Null \/ acc.thrown THEN acc
  ELSE
    LET routeUrl == parentUrl \o paths(t[route].url)
        got == getLabel(t[route].data)
        seen == [acc EXCEPT !.visited = Append(@, route)]
        pushed ==
          IF Truthy(t[route].data.breadcrumb)
          THEN IF got.label.kind = "throw"
               THEN [seen EXCEPT !.thrown = TRUE]
               ELSE [seen EXCEPT
                       !.breadcrumbs =
                          Append(@, [label |-> got.label,
                                     url |-> <<"/">> \o join(routeUrl, <<"/">>)]),
                       !.origin = Append(@, route),
                       !.applied = IF got.invoked
                                   THEN Append(@, [node |-> route, arg |-> t[route].data])
                                   ELSE @]
          ELSE seen
    IN addBreadcrumb(t, firstChild(t, route), routeUrl, pushed)

\* Mutant of construct: the list of the previous navigation is kept.
constructKeep(snapshot) ==
  addBreadcrumb(snapshot, 1, <<>>, [EmptyWalk EXCEPT !.breadcrumbs = breadcrumbs])

\* The subscribe callback's construction: a walk from the snapshot's root,
\* with no parent URL and a fresh list.
construct(snapshot) == addBreadcrumb(snapshot, 1, <<>>, EmptyWalk)

\* Mutant of filter: every router event passes.
filterNone(event) == TRUE

\* filter((event) => event instanceof NavigationEnd)
filter(event) == event = "NavigationEnd"

\* Mutant of subscribeNow: a plain Subject hands a new subscriber nothing.
subscribeNone(current) == <<>>

\* new BehaviorSubject(...).asObservable().subscribe: what a new subscriber
\* is handed at once, the subject's current value.
subscribeNow(current) == <<current>>

\* --------------------------------------------------- BreadcrumbComponent
\* Angular's URL sanitizer on [href]: a URL that starts with '/' is safe.
sanitize(url) ==
  IF Len(url) > 0 /\ url[1] = "/" THEN url
  ELSE <<"u","n","s","a","f","e",":">> \o url

\* {{ breadcrumb.label }}: the text of a value.
interpolate(v) == IF v.kind = "string" THEN v.value ELSE v.kind

\* *ngFor over the list the async pipe holds: one link per entry, in order.
render(list) ==
  [i \in 1..Len(list) |->
     [href |-> sanitize(list[i].url), text |-> interpolate(list[i].label)]]

\* ------------------------------------------------------ the route table
sHome == <<"h","o","m","e">>
sUsers == <<"u","s","e","r","s">>

NoData == [breadcrumb |-> Undefined, user |-> Undefined]
RootNode == [parent |-> 0, url |-> <<>>, data |-> NoData]
NoMatch == [matched |-> FALSE, tree |-> <<>>, resolve |-> {}, userNode |-> Null]

\* The router's recognition of a URL (its segments) against `routes`: the
\* tree to activate, the nodes with a resolver, the node of UserComponent.
Recognize(url) ==
  LET u == IF url = <<>> THEN <<sHome>> ELSE url
  IN IF u = <<sHome>> THEN
       [matched |-> TRUE,
        tree |-> <<RootNode,
                   [parent |-> 1, url |-> <<[path |-> sHome]>>,
                    data |-> [breadcrumb |-> Str("Home"), user |-> Undefined]]>>,
        resolve |-> {}, userNode |-> Null]
     ELSE IF u = <<sUsers>> THEN
       [matched |-> TRUE,
        tree |-> <<RootNode,
                   [parent |-> 1, url |-> <<[path |-> sUsers]>>,
                    data |-> [breadcrumb |-> Str("Users"), user |-> Undefined]]>>,
        resolve |-> {}, userNode |-> Null]
     ELSE IF Len(u) = 2 /\ u[1] = sUsers THEN
       [matched |-> TRUE,
        tree |-> <<RootNode,
                   [parent |-> 1, url |-> <<[path |-> sUsers]>>,
                    data |-> [breadcrumb |-> Str("Users"), user |-> Undefined]],
                   [parent |-> 2, url |-> <<[path |-> u[2]]>>,
                    data |-> [breadcrumb |-> Fn("userName"), user |-> Undefined]]>>,
        resolve |-> {3}, userNode |-> 3]
     ELSE NoMatch

\* The URLs the user navigates to, as segments.
NavUrls ==
  { <<>>, <<sHome>>, <<sUsers>>, <<sUsers, <<"1">>>>, <<sUsers, <<"2">>>>,
    <<sUsers, <<"9">>>>, <<<<"x">>>> }

\* UserResolverService.resolve: the id parameter of the route, then the
\* users the GET on users/${id} can answer with.
resolve(route) == {u \in Users : u.id = route.url[Len(route.url)].path}

\* ------------------------------------------------- arbitrary route trees
NodeUrls ==
  { <<>>, <<[path |-> <<"a">>]>>, <<[path |-> <<"b">>], [path |-> <<"c">>]>> }

\* The data bags a node with the URL u may carry: no breadcrumb, a string, the
\* empty string, or the function with the user its resolver fetched (the
\* second user under a URL of two segments, the first otherwise).
NodeData(u) ==
  { NoData,
    [breadcrumb |-> Str("Home"), user |-> Undefined],
    [breadcrumb |-> Str(""), user |-> Undefined],
    [breadcrumb |-> Fn("userName"),
     user |-> CHOOSE x \in Users : (x.name = "Ervin") <=> (Len(u) = 2)] }

\* ------------------------------------------------------------- actions
Idle == [phase |-> "idle", url |-> <<>>, target |-> <<>>, resolve |-> {}, userNode |-> Null]

\* router.events.pipe(filter(...)).subscribe(...) on one event, with the
\* snapshot router.routerState.snapshot holds when the event is emitted; the
\* component's async pipe receives what the subject emits.
Deliver(event, snapshot) ==
  IF filter(event)
  THEN LET w == construct(snapshot)
       IN /\ walk' = w
          /\ error' = w.thrown
          /\ IF w.thrown
             THEN UNCHANGED <<breadcrumbs, emissions, links>>
             ELSE /\ breadcrumbs' = w.breadcrumbs
                  /\ emissions' = Append(emissions, w.breadcrumbs)
                  /\ links' = IF subscribed THEN render(w.breadcrumbs) ELSE links
  ELSE UNCHANGED <<breadcrumbs, emissions, links, walk, error>>

\* The user asks for a URL: NavigationStart.
NavigateByUrl(url) ==
  /\ nav.phase = "idle"
  /\ Len(navEnds) < MaxNavigations
  /\ nav' = [Idle EXCEPT !.phase = "started", !.url = url]
  /\ Deliver("NavigationStart", routerState)
  /\ UNCHANGED <<routerState, navEnds, subscribed, subscribedAt, pageUser>>

\* The router matches the URL: RoutesRecognized, the guards and ResolveStart,
\* or NavigationError when no route matches.
RouterRecognize ==
  /\ nav.phase = "started"
  /\ LET r == Recognize(nav.url)
     IN IF r.matched
        THEN /\ nav' = [nav EXCEPT !.phase = "resolving", !.target = r.tree,
                                   !.resolve = r.resolve, !.userNode = r.userNode]
             /\ Deliver("ResolveStart", routerState)
        ELSE /\ nav' = Idle
             /\ Deliver("NavigationError", routerState)
  /\ UNCHANGED <<routerState, navEnds, subscribed, subscribedAt, pageUser>>

\* A resolver's GET answers: the object joins the data bag of its node.
ResolverDeliver(n) ==
  /\ nav.phase = "resolving"
  /\ n \in nav.resolve
  /\ \E u \in resolve(nav.target[n]) :
       nav' = [nav EXCEPT !.target[n].data.user = u, !.resolve = @ \ {n}]
  /\ UNCHANGED <<routerState, breadcrumbs, emissions, navEnds, walk, error,
                 subscribed, subscribedAt, links, pageUser>>

\* A resolver's GET fails: NavigationError, the navigation is dropped.
ResolverError(n) ==
  /\ nav.phase = "resolving"
  /\ n \in nav.resolve
  /\ nav' = Idle
  /\ Deliver("NavigationError", routerState)
  /\ UNCHANGED <<routerState, navEnds, subscribed, subscribedAt, pageUser>>

\* Every resolver has answered: ResolveEnd.
RouterResolveEnd ==
  /\ nav.phase = "resolving"
  /\ nav.resolve = {}
  /\ nav' = [nav EXCEPT !.phase = "resolved"]
  /\ Deliver("ResolveEnd", routerState)
  /\ UNCHANGED <<routerState, navEnds, subscribed, subscribedAt, pageUser>>

\* The navigation is superseded or a guard refuses it: NavigationCancel.
RouterCancel ==
  /\ nav.phase \in {"started", "resolving", "resolved"}
  /\ nav' = Idle
  /\ Deliver("NavigationCancel", routerState)
  /\ UNCHANGED <<routerState, navEnds, subscribed, subscribedAt, pageUser>>

\* The router replaces its state by the target tree and activates the
\* components (UserComponent.ngOnInit reads data.user): ActivationEnd.
RouterActivate ==
  /\ nav.phase = "resolved"
  /\ routerState' = nav.target
  /\ pageUser' = IF nav.userNode = Null THEN Undefined
                 ELSE nav.target[nav.userNode].data.user
  /\ nav' = [nav EXCEPT !.phase = "activated"]
  /\ Deliver("ActivationEnd", nav.target)
  /\ UNCHANGED <<navEnds, subscribed, subscribedAt>>

\* The navigation settles: NavigationEnd, which the service handles.
RouterNavigationEnd ==
  /\ nav.phase = "activated"
  /\ nav' = Idle
  /\ navEnds' = Append(navEnds, routerState)
  /\ Deliver("NavigationEnd", routerState)
  /\ UNCHANGED <<routerState, subscribed, subscribedAt, pageUser>>

\* BreadcrumbComponent is created and its template's async pipe subscribes
\* to breadcrumbs$: the BehaviorSubject hands it its current value.
ComponentInit ==
  /\ ~subscribed
  /\ subscribed' = TRUE
  /\ subscribedAt' = Len(emissions)
  /\ LET got == subscribeNow(breadcrumbs)
     IN links' = IF got = <<>> THEN <<>> ELSE render(got[Len(got)])
  /\ UNCHANGED <<routerState, nav, breadcrumbs, emissions, navEnds, walk, error,
                 pageUser>>

\* --------------------------------------------------------- specifications
\* The application: the router starts on the empty tree, the subject on [].
Init ==
  /\ routerState = <<RootNode>>
  /\ nav = Idle
  /\ breadcrumbs = <<>>
  /\ emissions = <<>>
  /\ navEnds = <<>>
  /\ walk = EmptyWalk
  /\ error = FALSE
  /\ subscribed = FALSE
  /\ subscribedAt = 0
  /\ links = <<>>
  /\ pageUser = Undefined

Next ==
  \/ \E url \in NavUrls : NavigateByUrl(url)
  \/ RouterRecognize
  \/ \E n \in 1..MaxNodes : ResolverDeliver(n)
  \/ \E n \in 1..MaxNodes : ResolverError(n)
  \/ RouterResolveEnd
  \/ RouterCancel
  \/ RouterActivate
  \/ RouterNavigationEnd
  \/ ComponentInit

Spec == Init /\ [][Next]_vars

\* The construction on an arbitrary route tree: the router's recognition
\* builds any tree of at most MaxNodes nodes, node by node (a node is added
\* under any node already there, after its earlier children), activates it
\* and emits NavigationEnd.
RouterBuild(p, u, d) ==
  /\ nav.phase = "resolved"
  /\ Len(nav.target) < MaxNodes
  /\ p \in 1..Len(nav.target)
  /\ nav' = [nav EXCEPT !.target = Append(@, [parent |-> p, url |-> u, data |-> d])]
  /\ UNCHANGED <<routerState, breadcrumbs, emissions, navEnds, walk, error,
                 subscribed, subscribedAt, links, pageUser>>

InitWalk ==
  /\ routerState = <<RootNode>>
  /\ \E u \in NodeUrls : \E d \in NodeData(u) :
       nav = [Idle EXCEPT !.phase = "resolved",
                          !.target = <<[parent |-> 0, url |-> u, data |-> d]>>]
  /\ breadcrumbs = <<>>
  /\ emissions = <<>>
  /\ navEnds = <<>>
  /\ walk = EmptyWalk
  /\ error = FALSE
  /\ subscribed = FALSE
  /\ subscribedAt = 0
  /\ links = <<>>
  /\ pageUser = Undefined

NextWalk ==
  \/ \E p \in 1..MaxNodes, u \in NodeUrls : \E d \in NodeData(u) : RouterBuild(p, u, d)
  \/ RouterActivate
  \/ RouterNavigationEnd

SpecWalk == InitWalk /\ [][NextWalk]_vars

\* ------------------------------------------------- what the claims speak of
\* The tree of the most recent NavigationEnd, once there is one.
Done == Len(navEnds) > 0
LastTree == navEnds[Len(navEnds)]

\* A node is on the active path when it is the root, or the first of its
\* parent's children and its parent is on the active path.
RECURSIVE OnActivePath(_, _)
OnActivePath(t, k) ==
  \/ k = 1
  \/ /\ \A j \in 1..(k - 1) : t[j].parent # t[k].parent
     /\ OnActivePath(t, t[k].parent)

RECURSIVE Sorted(_)
Sorted(S) ==
  IF S = {} THEN <<>>
  ELSE LET m == CHOOSE x \in S : \A y \in S : x <= y
       IN <<m>> \o Sorted(S \ {m})

\* The active path from the root to the leaf (a parent precedes its children).
ActivePath(t) == Sorted({k \in 1..Len(t) : OnActivePath(t, k)})

\* The path segments of all nodes from the root down to node k.
RECURSIVE SegmentsTo(_, _)
SegmentsTo(t, k) ==
  (IF k = 1 THEN <<>> ELSE SegmentsTo(t, t[k].parent))
    \o [i \in 1..Len(t[k].url) |-> t[k].url[i].path]

\* The segments rendered with a leading '/' and '/' between them.
RECURSIVE Slashed(_)
Slashed(segs) ==
  IF segs = <<>> THEN <<>> ELSE <<"/">> \o Head(segs) \o Slashed(Tail(segs))

UrlOf(segs) == IF segs = <<>> THEN <<"/">> ELSE Slashed(segs)

\* String.prototype.split('/') and the segments a URL reads as.
RECURSIVE SplitSlash(_)
SplitSlash(s) ==
  IF s = <<>> THEN << <<>> >>
  ELSE LET rest == SplitSlash(Tail(s))
       IN IF Head(s) = "/" THEN << <<>> >> \o rest
          ELSE << <<Head(s)>> \o rest[1] >> \o Tail(rest)

UrlSegments(url) == IF url = <<"/">> THEN <<>> ELSE SplitSlash(Tail(url))

IsPrefix(a, b) == Len(a) <= Len(b) /\ \A i \in 1..Len(a) : a[i] = b[i]

\* The nodes of the active path that carry a label: a function or a
\* non-empty string.
HasLabel(d) ==
  \/ d.breadcrumb.kind = "function"
  \/ d.breadcrumb.kind = "string" /\ d.breadcrumb.value # ""

LabelOf(d) == IF d.breadcrumb.kind = "string" THEN d.breadcrumb ELSE Str(d.user.name)

Producing(t) == SelectSeq(ActivePath(t), LAMBDA k : HasLabel(t[k].data))

\* The breadcrumb list of a tree.
Expected(t) ==
  [i \in 1..Len(Producing(t)) |->
     [label |-> LabelOf(t[Producing(t)[i]].data),
      url |-> UrlOf(SegmentsTo(t, Producing(t)[i]))]]

\* The tree without the nodes that are off the active path.
Prune(t) ==
  [i \in 1..Len(ActivePath(t)) |-> [t[ActivePath(t)[i]] EXCEPT !.parent = i - 1]]

\* ---------------------------------------------------------------- claims
\* C1: when every node of the active path carries a breadcrumb value, the list
\* built on NavigationEnd has one entry per node of the path, in root-to-leaf
\* order (entry i was pushed for the i-th node of the path).
C1_OneEntryPerNodeInOrder ==
  (Done /\ \A k \in 1..Len(LastTree) :
             OnActivePath(LastTree, k) => LastTree[k].data.breadcrumb # Undefined)
  => /\ Len(breadcrumbs) = Len(ActivePath(LastTree))
     /\ walk.origin = ActivePath(LastTree)

\* C2: the URL of every entry is '/' followed by the '/'-joined path segments
\* of all nodes from the root down to the node the entry was pushed for.
C2_UrlIsJoinedSegments ==
  Done =>
    /\ ~error
    /\ Len(walk.origin) = Len(breadcrumbs)
    /\ \A i \in 1..Len(breadcrumbs) :
         breadcrumbs[i].url = UrlOf(SegmentsTo(LastTree, walk.origin[i]))

C2_Witness ==
  /\ Done
  /\ Len(LastTree) = 3
  /\ Len(LastTree[1].url) = 1 /\ LastTree[1].data = NoData
  /\ Len(LastTree[2].url) = 0 /\ LastTree[2].parent = 1
  /\ Len(LastTree[3].url) = 2 /\ LastTree[3].parent = 2
  /\ Len(breadcrumbs) = 2
  /\ breadcrumbs[1].url = <<"/", "a">>
  /\ breadcrumbs[2].url = <<"/", "a", "/", "b", "/", "c">>

\* C3: the label of an entry is the breadcrumb value of its node when that is
\* a string, and otherwise the breadcrumb function applied to the data bag of
\* that very node; a string is never invoked, a function never emitted.
C3_LabelIsStringOrApplied ==
  Done =>
    /\ ~error
    /\ Len(walk.origin) = Len(breadcrumbs)
    /\ \A i \in 1..Len(breadcrumbs) :
         LET k == walk.origin[i]
             d == LastTree[k].data
         IN /\ breadcrumbs[i].label.kind = "string"
            /\ d.breadcrumb.kind \in {"string", "function"}
            /\ d.breadcrumb.kind = "string" =>
                 /\ breadcrumbs[i].label = d.breadcrumb
                 /\ \A j \in 1..Len(walk.applied) : walk.applied[j].node # k
            /\ d.breadcrumb.kind = "function" =>
                 /\ breadcrumbs[i].label = Str(d.user.name)
                 /\ \E j \in 1..Len(walk.applied) :
                      walk.applied[j] = [node |-> k, arg |-> d]
    /\ \A j \in 1..Len(walk.applied) :
         LastTree[walk.applied[j].node].data.breadcrumb.kind = "function"

C3_Witness ==
  /\ Done
  /\ Len(breadcrumbs) = 3
  /\ breadcrumbs[1].label = Str("Home")
  /\ breadcrumbs[2].label = Str("Leanne")
  /\ breadcrumbs[3].label = Str("Ervin")
  /\ Len(walk.applied) = 2

\* C4: a node of the active path contributes an entry if and only if its data
\* bag carries a breadcrumb value, a string or a function; a node without one
\* is skipped without an error.
C4_EntryIffBreadcrumbValue ==
  Done =>
    /\ ~error
    /\ \A k \in 1..Len(LastTree) :
         OnActivePath(LastTree, k) =>
           ((\E i \in 1..Len(walk.origin) : walk.origin[i] = k)
              <=> LastTree[k].data.breadcrumb.kind \in {"string", "function"})

\* C5: a step that handles no NavigationEnd event leaves the current value of
\* breadcrumbs$ unchanged and emits nothing, whatever the router does.
C5_OnlyNavigationEndEmits ==
  [][navEnds' = navEnds => (breadcrumbs' = breadcrumbs /\ emissions' = emissions)]_vars

C5_Witness ==
  /\ nav.phase = "activated"
  /\ Done
  /\ routerState # LastTree
  /\ Len(breadcrumbs) = 2
  /\ breadcrumbs = Expected(LastTree)
  /\ breadcrumbs # Expected(routerState)

\* C6: every NavigationEnd has its one emission, in the order of the events,
\* the emitted list is that of the tree at the event (nothing of an earlier
\* list is kept), the current value is the latest emission, and equal trees
\* give equal lists.
C6_OneFreshEmissionPerNavigationEnd ==
  /\ Len(emissions) = Len(navEnds)
  /\ \A k \in 1..Len(emissions) :
       k <= Len(navEnds) /\ emissions[k] = Expected(navEnds[k])
  /\ breadcrumbs = IF emissions = <<>> THEN <<>> ELSE emissions[Len(emissions)]
  /\ \A j, k \in 1..Len(emissions) :
       (j <= Len(navEnds) /\ k <= Len(navEnds) /\ navEnds[j] = navEnds[k])
         => emissions[j] = emissions[k]

C6_Witness ==
  /\ Len(navEnds) = 2
  /\ Len(emissions) = 2
  /\ Len(emissions[1]) = 2
  /\ Len(emissions[2]) = 1
  /\ breadcrumbs = emissions[2]
  /\ breadcrumbs[1].label = Str("Home")

\* C7: the walk enters exactly the nodes of the first-child chain, from the
\* root to the node without a child, and ends; the nodes off the chain give
\* neither an entry nor a segment (the list is that of the chain alone).
C7_WalkIsTheFirstChildChain ==
  /\ nav.phase = "activated" =>
       Len(construct(routerState).visited) \in 1..Len(routerState)
  /\ Done =>
       /\ ~error
       /\ walk.visited = ActivePath(LastTree)
       /\ Len(walk.visited) <= Len(LastTree)
       /\ firstChild(LastTree, walk.visited[Len(walk.visited)]) = Null
       /\ \A i \in 1..Len(walk.origin) : OnActivePath(LastTree, walk.origin[i])
       /\ breadcrumbs = Expected(Prune(LastTree))

C7_Witness ==
  /\ Done
  /\ Len(LastTree) = 3
  /\ LastTree[2].parent = 1 /\ LastTree[3].parent = 1
  /\ LastTree[3].data.breadcrumb = Str("Home") /\ Len(LastTree[3].url) = 2
  /\ LastTree[2].data.breadcrumb.kind = "function" /\ Len(LastTree[2].url) = 1
  /\ walk.visited = <<1, 2>>
  /\ Len(breadcrumbs) = 1
  /\ breadcrumbs[1].url = <<"/", "a">>

\* C8: the breadcrumb function is only ever applied to a data bag that holds
\* the resolved user: every tree a NavigationEnd is handled on has its
\* resolvers' objects in place, the callback does not throw, and the label of
\* the user page is the name of the object the page displays.
C8_LabelAfterResolution ==
  /\ ~error
  /\ \A j \in 1..Len(walk.applied) : walk.applied[j].arg.user \in Users
  /\ \A k \in 1..Len(navEnds) : \A n \in 1..Len(navEnds[k]) :
       navEnds[k][n].data.breadcrumb.kind = "function"
         => navEnds[k][n].data.user \in Users
  /\ (pageUser # Undefined /\ nav.phase # "activated") =>
       /\ Len(breadcrumbs) = 2
       /\ breadcrumbs[2].label = Str(pageUser.name)

C8_Witness ==
  /\ Len(navEnds) = 2
  /\ nav.phase = "idle"
  /\ pageUser \in Users /\ pageUser.name = "Ervin"
  /\ Len(breadcrumbs) = 2 /\ breadcrumbs[2].label = Str("Ervin")
  /\ Len(emissions[1]) = 2 /\ emissions[1][2].label = Str("Leanne")
  /\ Len(walk.applied) = 1

\* C9: the component displays the latest emitted list, one link per entry in
\* the same order with href the URL and text the label; nothing before the
\* first NavigationEnd, and the latest list at once when it subscribes late.
C9_ComponentShowsLatestList ==
  subscribed =>
    /\ Len(links) = Len(breadcrumbs)
    /\ \A i \in 1..Len(links) :
         /\ links[i].href = breadcrumbs[i].url
         /\ links[i].text = breadcrumbs[i].label.value
    /\ breadcrumbs = IF emissions = <<>> THEN <<>> ELSE emissions[Len(emissions)]
    /\ navEnds = <<>> => links = <<>>

C9_Witness ==
  /\ subscribed
  /\ subscribedAt = 1
  /\ Len(emissions) = 1
  /\ Len(links) = 2
  /\ links[1].text = "Users"
  /\ links[2].text = "Leanne"
  /\ links[2].href = <<"/">> \o sUsers \o <<"/", "1">>

\* C10: the URLs of a list form a prefix chain: the segments of an entry's
\* URL are a prefix of the segments of the next entry's URL; no URL has an
\* empty segment when no path segment is empty, and a node reached with no
\* segment at all has the URL '/'.
C10_UrlsFormPrefixChain ==
  Done =>
    /\ ~error
    /\ Len(walk.origin) = Len(breadcrumbs)
    /\ \A i \in 1..Len(breadcrumbs) :
         /\ Len(breadcrumbs[i].url) > 0 /\ breadcrumbs[i].url[1] = "/"
         /\ i < Len(breadcrumbs) =>
              IsPrefix(UrlSegments(breadcrumbs[i].url), UrlSegments(breadcrumbs[i + 1].url))
         /\ (\A n \in 1..Len(LastTree) : \A j \in 1..Len(LastTree[n].url) :
               LastTree[n].url[j].path # <<>>)
              => \A j \in 1..Len(UrlSegments(breadcrumbs[i].url)) :
                   UrlSegments(breadcrumbs[i].url)[j] # <<>>
         /\ SegmentsTo(LastTree, walk.origin[i]) = <<>> => breadcrumbs[i].url = <<"/">>
         /\ Len(UrlSegments(breadcrumbs[i].url)) = Len(SegmentsTo(LastTree, walk.origin[i]))

C10_Witness ==
  /\ Done
  /\ Len(breadcrumbs) = 3
  /\ breadcrumbs[1].url = <<"/">>
  /\ breadcrumbs[2].url = <<"/", "b", "/", "c">>
  /\ breadcrumbs[3].url = breadcrumbs[2].url

====
